---- MODULE Spec2Model ----
(***************************************************************************)
(* convert_osm2sql.py: shaping of OSM XML elements into table rows         *)
(* (shape_element) and the buffered load of the five SQLite tables         *)
(* (process_map, Sqlite3TableWriter).                                      *)
(*                                                                         *)
(* Strings that the code inspects character by character (tag keys) are    *)
(* sequences of one-character strings.  The token "U+0663" stands for the  *)
(* single character ARABIC-INDIC DIGIT THREE.  An attribute mapping        *)
(* (Element.attrib) is a function whose DOMAIN is the set of attributes    *)
(* present.  The descendants of an element are kept as one sequence in     *)
(* document order, the order Element.iter() visits them.                   *)
(***************************************************************************)
EXTENDS Integers, Sequences, FiniteSets, TLC

VARIABLES pc, validate, stream, element, el, cache, db, ci

vars == <<pc, validate, stream, element, el, cache, db, ci>>

----------------------------------------------------------------------------
(* Bounds of the explored inputs *)

\* longest tag key handed to shape_element
MaxKeyLen == 5
\* most sub-elements of one element handed to shape_element
MaxChildren == 2
\* most elements in a document read by process_map
MaxStream == 2

----------------------------------------------------------------------------
(* Module constants *)

NODE_FIELDS == <<"id", "lat", "lon", "user", "uid", "version", "changeset", "timestamp">>

WAY_FIELDS == <<"id", "user", "uid", "version", "changeset", "timestamp">>

\* the character class of PROBLEMCHARS
PROBLEMCHARS ==
    {"=", "+", "/", "&", "<", ">", ";", "'", "\"", "?", "%", "#", "$", "@",
     ",", ".", " ", "\t", "\r", "\n"}

\* [a-z]
AsciiLower ==
    {"a", "b", "c", "d", "e", "f", "g", "h", "i", "j", "k", "l", "m",
     "n", "o", "p", "q", "r", "s", "t", "u", "v", "w", "x", "y", "z"}

\* [0-9]
AsciiDigit == {"0", "1", "2", "3", "4", "5", "6", "7", "8", "9"}

\* \d of a str pattern: every Unicode decimal digit, the ASCII ones and the
\* others (of which the inputs use U+0663)
UnicodeDigit == AsciiDigit \cup {"U+0663"}

\* the tables in the order process_map creates and commits their writers
Tables == <<"nodes", "nodes_tags", "ways", "ways_nodes", "ways_tags">>

None == [outcome |-> "None"]

KeyError == [outcome |-> "KeyError"]

----------------------------------------------------------------------------
(* The regular expressions of shape_element *)

Range(s) == {s[i] : i \in 1..Len(s)}

\* problem_chars.search(tag_k): some character of the class occurs anywhere
problem_chars_search(tag_k) == \E i \in 1..Len(tag_k) : tag_k[i] \in PROBLEMCHARS

\* LOWER.match(s) for ^[\da-z]+$ ; $ also matches before one final newline
LOWER_match(s) ==
    LET body == IF Len(s) > 0 /\ s[Len(s)] = "\n" THEN SubSeq(s, 1, Len(s) - 1) ELSE s
    IN  Len(body) > 0 /\ \A i \in 1..Len(body) : body[i] \in UnicodeDigit \cup AsciiLower

\* index of the first colon of s, 0 when there is none
FirstColon(s) ==
    IF \E i \in 1..Len(s) : s[i] = ":"
    THEN CHOOSE i \in 1..Len(s) : s[i] = ":" /\ \A j \in 1..(i - 1) : s[j] # ":"
    ELSE 0

\* variant of re_split_first: the split is made at the last colon
re_split_last(s) ==
    IF \E i \in 1..Len(s) : s[i] = ":"
    THEN LET c == CHOOSE i \in 1..Len(s) : s[i] = ":" /\ \A j \in (i + 1)..Len(s) : s[j] # ":"
         IN  <<SubSeq(s, 1, c - 1), SubSeq(s, c + 1, Len(s))>>
    ELSE <<s>>

\* re.split('[:]', s, maxsplit=1)
re_split_first(s) ==
    LET c == FirstColon(s)
    IN  IF c = 0 THEN <<s>> ELSE <<SubSeq(s, 1, c - 1), SubSeq(s, c + 1, Len(s))>>

\* re.split('[:]', s)
RECURSIVE re_split(_)
re_split(s) ==
    LET c == FirstColon(s)
    IN  IF c = 0 THEN <<s>> ELSE <<SubSeq(s, 1, c - 1)>> \o re_split(SubSeq(s, c + 1, Len(s)))

\* key_ok after the loop over the segments of tag_k
key_ok(tag_k) ==
    LET tag_k_split_list == re_split(tag_k)
    IN  \A i \in 1..Len(tag_k_split_list) : LOWER_match(tag_k_split_list[i])

\* the tag is kept: no problem character and key_ok
Accepted(tag_k) == ~problem_chars_search(tag_k) /\ key_ok(tag_k)

\* tag_type of a kept tag
tag_type(tag_k) ==
    LET tag_k_split_list == re_split_first(tag_k)
    IN  IF Len(tag_k_split_list) > 1 THEN tag_k_split_list[1] ELSE <<>>

\* tag_key of a kept tag
tag_key(tag_k) ==
    LET tag_k_split_list == re_split_first(tag_k)
    IN  IF Len(tag_k_split_list) > 1 THEN tag_k_split_list[2] ELSE tag_k

----------------------------------------------------------------------------
(* shape_element *)

\* variant of Iter: the descendants only
Iter_descendants(e, name) == SelectSeq(e.children, LAMBDA c : c.tag = name)

\* element.iter(name): the element itself when its tag is name, then its
\* descendants of that tag, in document order
Iter(e, name) ==
    (IF e.tag = name THEN <<[tag |-> e.tag, attrib |-> e.attrib]>> ELSE <<>>)
        \o SelectSeq(e.children, LAMBDA c : c.tag = name)

\* tag_dict of one kept tag
tag_dict(e, tag) ==
    [id    |-> e.attrib["id"],
     key   |-> tag_key(tag.attrib["k"]),
     value |-> tag.attrib["v"],
     type  |-> tag_type(tag.attrib["k"])]

\* variant of tag_loop: a tag without "k" is passed over
RECURSIVE tag_loop_skip_keyless(_, _)
tag_loop_skip_keyless(e, its) ==
    IF Len(its) = 0 THEN [outcome |-> "ok", rows |-> <<>>]
    ELSE LET tag == Head(its)
         IN  IF "k" \notin DOMAIN tag.attrib THEN tag_loop_skip_keyless(e, Tail(its))
             ELSE IF Accepted(tag.attrib["k"])
             THEN IF "id" \notin DOMAIN e.attrib \/ "v" \notin DOMAIN tag.attrib
                  THEN KeyError
                  ELSE LET rest == tag_loop_skip_keyless(e, Tail(its))
                       IN  IF rest.outcome = "KeyError" THEN KeyError
                           ELSE [outcome |-> "ok", rows |-> <<tag_dict(e, tag)>> \o rest.rows]
             ELSE tag_loop_skip_keyless(e, Tail(its))

\* variant of tag_loop: the loop ends at the first rejected key
RECURSIVE tag_loop_break(_, _)
tag_loop_break(e, its) ==
    IF Len(its) = 0 THEN [outcome |-> "ok", rows |-> <<>>]
    ELSE LET tag == Head(its)
         IN  IF "k" \notin DOMAIN tag.attrib THEN KeyError
             ELSE IF Accepted(tag.attrib["k"])
             THEN IF "id" \notin DOMAIN e.attrib \/ "v" \notin DOMAIN tag.attrib
                  THEN KeyError
                  ELSE LET rest == tag_loop_break(e, Tail(its))
                       IN  IF rest.outcome = "KeyError" THEN KeyError
                           ELSE [outcome |-> "ok", rows |-> <<tag_dict(e, tag)>> \o rest.rows]
             ELSE [outcome |-> "ok", rows |-> <<>>]

\* the loop over element.iter('tag'), from the sub-elements `its` on:
\* KeyError, or the tag_dicts appended to tags
RECURSIVE tag_loop(_, _)
tag_loop(e, its) ==
    IF Len(its) = 0 THEN [outcome |-> "ok", rows |-> <<>>]
    ELSE LET tag == Head(its)
         IN  IF "k" \notin DOMAIN tag.attrib THEN KeyError
             ELSE IF Accepted(tag.attrib["k"])
             THEN IF "id" \notin DOMAIN e.attrib \/ "v" \notin DOMAIN tag.attrib
                  THEN KeyError
                  ELSE LET rest == tag_loop(e, Tail(its))
                       IN  IF rest.outcome = "KeyError" THEN KeyError
                           ELSE [outcome |-> "ok", rows |-> <<tag_dict(e, tag)>> \o rest.rows]
             ELSE tag_loop(e, Tail(its))

\* variant of nd_dict: the counter is incremented before it is stored
nd_dict_one_based(e, tag, nd_pos) ==
    [id |-> e.attrib["id"], node_id |-> tag.attrib["ref"], position |-> nd_pos + 1]

\* nd_dict of one reference, nd_pos being the running counter
nd_dict(e, tag, nd_pos) ==
    [id |-> e.attrib["id"], node_id |-> tag.attrib["ref"], position |-> nd_pos]

\* the loop over element.iter('nd'): KeyError, or the nd_dicts appended to
\* way_nodes
RECURSIVE nd_loop(_, _, _)
nd_loop(e, its, nd_pos) ==
    IF Len(its) = 0 THEN [outcome |-> "ok", rows |-> <<>>]
    ELSE LET tag == Head(its)
         IN  IF "id" \notin DOMAIN e.attrib \/ "ref" \notin DOMAIN tag.attrib
             THEN KeyError
             ELSE LET rest == nd_loop(e, Tail(its), nd_pos + 1)
                  IN  IF rest.outcome = "KeyError" THEN KeyError
                      ELSE [outcome |-> "ok", rows |-> <<nd_dict(e, tag, nd_pos)>> \o rest.rows]

\* variant of copy_attribs: an absent attribute is left out of the copy
copy_attribs_present(e, fields) ==
    [outcome |-> "ok",
     attribs |-> [f \in Range(fields) \cap DOMAIN e.attrib |-> e.attrib[f]]]

\* the copy of the attributes named by fields: KeyError when one is absent
copy_attribs(e, fields) ==
    IF Range(fields) \subseteq DOMAIN e.attrib
    THEN [outcome |-> "ok", attribs |-> [f \in Range(fields) |-> e.attrib[f]]]
    ELSE KeyError

\* shape_element(element): the returned dict, None, or the KeyError raised
shape_element(e) ==
    LET tags == tag_loop(e, Iter(e, "tag"))
    IN  IF tags.outcome = "KeyError" THEN KeyError
        ELSE LET way_nodes == nd_loop(e, Iter(e, "nd"), 0)
             IN  IF way_nodes.outcome = "KeyError" THEN KeyError
                 ELSE IF e.tag = "node"
                 THEN LET node_attribs == copy_attribs(e, NODE_FIELDS)
                      IN  IF node_attribs.outcome = "KeyError" THEN KeyError
                          ELSE [outcome   |-> "dict",
                                node      |-> node_attribs.attribs,
                                node_tags |-> tags.rows]
                 ELSE IF e.tag = "way"
                 THEN LET way_attribs == copy_attribs(e, WAY_FIELDS)
                      IN  IF way_attribs.outcome = "KeyError" THEN KeyError
                          ELSE [outcome   |-> "dict",
                                way       |-> way_attribs.attribs,
                                way_nodes |-> way_nodes.rows,
                                way_tags  |-> tags.rows]
                 ELSE None

----------------------------------------------------------------------------
(* Inputs *)

SeqsUpTo(S, n) == UNION {[1..k -> S] : k \in 0..n}

\* the characters of the explored tag keys: a lowercase letter, an ASCII
\* digit, the colon, the underscore, a problem character and a decimal
\* digit outside ASCII
KeyChars == {"a", "7", ":", "_", " ", "U+0663"}

Keys == SeqsUpTo(KeyChars, MaxKeyLen)

\* attribute values of the explored elements
SampleAttrib ==
    [id |-> "757860928", lat |-> "41.9747374", lon |-> "-87.6920102",
     user |-> "uboot", uid |-> "26299", version |-> "2",
     changeset |-> "5288876", timestamp |-> "2010-07-22T16:16:51Z",
     visible |-> "true", k |-> <<"a", ":", "7">>, v |-> "yes", ref |-> "2199822281"]

\* every attribute of a node, and one that no table has a column for
FullAttribs == Range(NODE_FIELDS) \cup {"visible"}

\* the attribute sets of the explored elements
AttribDomains ==
    {FullAttribs, FullAttribs \ {"id"}, FullAttribs \ {"uid"}, FullAttribs \ {"lat"},
     FullAttribs \cup {"k", "v", "ref"}}

MkAttrib(D, id) == [a \in D |-> IF a = "id" THEN id ELSE SampleAttrib[a]]

\* a "tag" sub-element; k = <<"absent">> / v = "absent" leave the attribute out
MkTag(k, v) ==
    [tag    |-> "tag",
     attrib |-> [a \in (IF k = <<"absent">> THEN {} ELSE {"k"})
                        \cup (IF v = "absent" THEN {} ELSE {"v"})
                 |-> IF a = "k" THEN k ELSE v]]

\* an "nd" sub-element; ref = "absent" leaves the attribute out
MkNd(ref) ==
    [tag |-> "nd", attrib |-> [a \in (IF ref = "absent" THEN {} ELSE {"ref"}) |-> ref]]

SubElements ==
    {MkTag(k, v) : k \in {<<"absent">>, <<"a">>, <<"a", ":", "7">>, <<"N">>},
                   v \in {"absent", "1412"}}
        \cup {MkNd(ref) : ref \in {"absent", "2199822281", "2199822390"}}

Kinds == {"node", "way", "relation", "tag"}

\* the elements handed to shape_element: every shape of element with few
\* sub-elements, and every key on one tag of a well-formed node
ShapeElements ==
    {[tag |-> kind, attrib |-> MkAttrib(D, SampleAttrib["id"]), children |-> ch] :
        kind \in Kinds, D \in AttribDomains, ch \in SeqsUpTo(SubElements, MaxChildren)}
    \cup
    {[tag |-> "node", attrib |-> MkAttrib(FullAttribs, "757860928"),
      children |-> <<MkTag(k, "fast_food")>>] : k \in Keys}

Ids == {"757860928", "209809850"}

\* the sub-elements of the top-level elements of the documents
DocChildren ==
    {<<>>,
     <<MkTag(<<"a", ":", "7">>, "1412")>>,
     <<MkNd("2199822281"), MkTag(<<"a">>, "fast_food"), MkNd("2199822390")>>}

\* the top-level elements of the documents read by process_map: nodes and
\* ways, complete or without "uid", and a relation
DocElements ==
    {[tag |-> kind, attrib |-> MkAttrib(D, id), children |-> ch] :
        kind \in {"node", "way"}, D \in {FullAttribs, FullAttribs \ {"uid"}},
        id \in Ids, ch \in DocChildren}
    \cup
    {[tag |-> "relation", attrib |-> MkAttrib(FullAttribs, "2"),
      children |-> <<MkTag(<<"a">>, "fast_food")>>]}

----------------------------------------------------------------------------
(* State *)

NoElement == [tag |-> "", attrib |-> <<>>, children |-> <<>>]

NotCalled == [outcome |-> "not called"]

EmptyCache == [t \in Range(Tables) |-> <<>>]

\* a row left in a table by an earlier load
PriorRow == [id |-> "1"]

\* the tables of the database file when process_map connects to it
db0 == [t \in Range(Tables) |-> <<PriorRow>>]

Init ==
    /\ pc = "idle"
    /\ validate = FALSE
    /\ stream = <<>>
    /\ element = NoElement
    /\ el = NotCalled
    /\ cache = EmptyCache
    /\ db = db0
    /\ ci = 1

----------------------------------------------------------------------------
(* Operations *)

\* a call of shape_element(e) from outside process_map; shape_element keeps
\* no state between calls, so one call per behaviour shows every result
CallShapeElement(e) ==
    /\ pc = "idle"
    /\ el = NotCalled
    /\ element' = e
    /\ el' = shape_element(e)
    /\ UNCHANGED <<pc, validate, stream, cache, db, ci>>

\* process_map(file_in, validate) up to the loop: the five writers are
\* created with empty caches
StartProcessMap(v) ==
    /\ pc = "idle"
    /\ pc' = "loop"
    /\ validate' = v
    /\ stream' = <<>>
    /\ element' = NoElement
    /\ el' = NotCalled
    /\ cache' = EmptyCache
    /\ UNCHANGED <<db, ci>>

\* get_element reads a top-level element whose tag is not in tags
GetElementSkip(e) ==
    /\ pc = "loop"
    /\ Len(stream) < MaxStream
    /\ e.tag \notin {"node", "way"}
    /\ stream' = Append(stream, e)
    /\ UNCHANGED <<pc, validate, element, el, cache, db, ci>>

\* writerow / writerows of the writers of the element's kind
WriteRows(c, e, r) ==
    IF e.tag = "node"
    THEN [c EXCEPT !["nodes"] = Append(@, r.node),
                   !["nodes_tags"] = @ \o r.node_tags]
    ELSE IF e.tag = "way"
    THEN [c EXCEPT !["ways"] = Append(@, r.way),
                   !["ways_nodes"] = @ \o r.way_nodes,
                   !["ways_tags"] = @ \o r.way_tags]
    ELSE c

\* one iteration of the loop of process_map over a yielded element; valid is
\* the verdict of validator.validate on the shaped element
LoopIteration(e, valid) ==
    /\ pc = "loop"
    /\ Len(stream) < MaxStream
    /\ e.tag \in {"node", "way"}
    /\ LET r == shape_element(e)
       IN  /\ stream' = Append(stream, e)
           /\ element' = e
           /\ el' = r
           /\ IF r.outcome = "KeyError"
              THEN pc' = "KeyError" /\ cache' = cache
              ELSE IF r.outcome = "None"
              THEN pc' = pc /\ cache' = cache
              ELSE IF validate /\ ~valid
              THEN pc' = "Exception" /\ cache' = cache
              ELSE pc' = pc /\ cache' = WriteRows(cache, e, r)
    /\ UNCHANGED <<validate, db, ci>>

\* the generator of get_element is exhausted
EndOfStream ==
    /\ pc = "loop"
    /\ pc' = "commit"
    /\ UNCHANGED <<validate, stream, element, el, cache, db, ci>>

\* variant of CommitDb: to_sql replaces the table (if_exists="replace")
CommitDb_replace(ok) ==
    /\ pc = "commit"
    /\ IF ok
       THEN /\ db' = [db EXCEPT ![Tables[ci]] = cache[Tables[ci]]]
            /\ ci' = ci + 1
            /\ pc' = IF ci = Len(Tables) THEN "done" ELSE "commit"
       ELSE /\ pc' = "to_sql error"
            /\ UNCHANGED <<db, ci>>
    /\ UNCHANGED <<validate, stream, element, el, cache>>

\* variant of CommitDb: the writers are committed from the last to the first
CommitDb_reversed(ok) ==
    /\ pc = "commit"
    /\ IF ok
       THEN /\ db' = [db EXCEPT ![Tables[Len(Tables) + 1 - ci]] =
                                    @ \o cache[Tables[Len(Tables) + 1 - ci]]]
            /\ ci' = ci + 1
            /\ pc' = IF ci = Len(Tables) THEN "done" ELSE "commit"
       ELSE /\ pc' = "to_sql error"
            /\ UNCHANGED <<db, ci>>
    /\ UNCHANGED <<validate, stream, element, el, cache>>

\* commit_db of the ci-th writer; ok is whether to_sql succeeds
CommitDb(ok) ==
    /\ pc = "commit"
    /\ IF ok
       THEN /\ db' = [db EXCEPT ![Tables[ci]] = @ \o cache[Tables[ci]]]
            /\ ci' = ci + 1
            /\ pc' = IF ci = Len(Tables) THEN "done" ELSE "commit"
       ELSE /\ pc' = "to_sql error"
            /\ UNCHANGED <<db, ci>>
    /\ UNCHANGED <<validate, stream, element, el, cache>>

Next ==
    \/ pc = "idle" /\ el = NotCalled /\ \E e \in ShapeElements : CallShapeElement(e)
    \/ \E v \in BOOLEAN : StartProcessMap(v)
    \/ pc = "loop" /\ \E e \in DocElements : GetElementSkip(e)
    \/ pc = "loop" /\ \E e \in DocElements, valid \in BOOLEAN : LoopIteration(e, valid)
    \/ EndOfStream
    \/ \E ok \in BOOLEAN : CommitDb(ok)

Spec == Init /\ [][Next]_vars

\* pc is the place of the program: "idle" outside process_map, "loop" and
\* "commit" inside it, "done" after its return, and after an exception has
\* left it "KeyError" (shape_element), "Exception" (validate_element) or
\* "to_sql error" (commit_db)
TypeOK == pc \in {"idle", "loop", "commit", "done", "KeyError", "Exception", "to_sql error"}

----------------------------------------------------------------------------
(* Vocabulary of the properties *)

\* shape_element has acted on element and el is its outcome
Shaped == el # NotCalled

Regular == <<"r", "e", "g", "u", "l", "a", "r">>

HasColon(k) == ":" \in Range(k)

SubsNamed(e, name) == SelectSeq(e.children, LAMBDA c : c.tag = name)

\* the tag records of a returned dict
TagsOf(e, r) == IF e.tag = "node" THEN r.node_tags ELSE r.way_tags

\* k matches ^[0-9a-z]+(:[0-9a-z]+)*$
MatchesKeyPattern(k) ==
    /\ Len(k) > 0
    /\ \A i \in 1..Len(k) : k[i] \in AsciiDigit \cup AsciiLower \cup {":"}
    /\ k[1] # ":" /\ k[Len(k)] # ":"
    /\ \A i \in 1..(Len(k) - 1) : ~(k[i] = ":" /\ k[i + 1] = ":")

\* the raw key a tag record was made from
RawKey(rec) == IF rec.type = <<>> THEN rec.key ELSE rec.type \o <<":">> \o rec.key

\* the fixed attribute set of a kind
FieldsOf(kind) == IF kind = "node" THEN Range(NODE_FIELDS) ELSE Range(WAY_FIELDS)

----------------------------------------------------------------------------
(* C1: for every tag of a node or way whose key is accepted and has no     *)
(* colon, the emitted tag record has type "regular" and key equal to the   *)
(* whole "k" value.                                                        *)
C1_RegularType ==
    (Shaped /\ el.outcome = "dict") =>
        LET kept == SelectSeq(SubsNamed(element, "tag"), LAMBDA t : Accepted(t.attrib["k"]))
            tags == TagsOf(element, el)
        IN  /\ Len(tags) = Len(kept)
            /\ \A i \in 1..Len(kept) :
                   ~HasColon(kept[i].attrib["k"]) =>
                       tags[i].type = Regular /\ tags[i].key = kept[i].attrib["k"]

(* C2: for every accepted key with a colon, type is the part before the    *)
(* first colon (so it has no colon), key is all that follows it, further   *)
(* colons included, and type, ":" and key together give back the raw key.  *)
C2_ColonSplit ==
    (Shaped /\ el.outcome = "dict") =>
        LET kept == SelectSeq(SubsNamed(element, "tag"), LAMBDA t : Accepted(t.attrib["k"]))
            tags == TagsOf(element, el)
        IN  /\ Len(tags) = Len(kept)
            /\ \A i \in 1..Len(kept) :
                   HasColon(kept[i].attrib["k"]) =>
                       /\ ~HasColon(tags[i].type)
                       /\ tags[i].type \o <<":">> \o tags[i].key = kept[i].attrib["k"]

\* a key with two colons has been split
C2_Witness ==
    /\ Shaped /\ el.outcome = "dict" /\ element.tag = "node"
    /\ Len(el.node_tags) = 1
    /\ el.node_tags[1].type = <<"a">>
    /\ el.node_tags[1].key = <<"7", ":", "a">>

C4_WayNodes ==
    (Shaped /\ element.tag = "way") =>
        LET nds == SubsNamed(element, "nd")
        IN  /\ el.outcome = "dict" =>
                /\ Len(el.way_nodes) = Len(nds)
                /\ \A i \in 1..Len(nds) :
                       el.way_nodes[i] = [id       |-> element.attrib["id"],
                                          node_id  |-> nds[i].attrib["ref"],
                                          position |-> i - 1]
            /\ ( /\ Range(WAY_FIELDS) \subseteq DOMAIN element.attrib
                 /\ \A i \in 1..Len(nds) : "ref" \in DOMAIN nds[i].attrib
                 /\ \A i \in 1..Len(element.children) :
                        element.children[i].tag = "tag" =>
                            {"k", "v"} \subseteq DOMAIN element.children[i].attrib )
               => el.outcome = "dict"

\* a way with the same ref twice has been shaped
C4_Witness ==
    /\ Shaped /\ element.tag = "way" /\ el.outcome = "dict"
    /\ Len(el.way_nodes) = 2
    /\ el.way_nodes[1].node_id = el.way_nodes[2].node_id
    /\ el.way_nodes[2].position = 1

\* the element with its tags of rejected key taken away
WithoutRejected(e) ==
    [e EXCEPT !.children =
        SelectSeq(@, LAMBDA c : c.tag # "tag" \/ Accepted(c.attrib["k"]))]

(* C9: a rejected key neither aborts the element nor raises: the outcome   *)
(* is that of the element without its rejected tags, and the tag records   *)
(* are those of the accepted tags, in order, each with the element's id    *)
(* and the tag's "v".                                                      *)
C9_RejectedTagsSkipped ==
    (Shaped /\ \A i \in 1..Len(element.children) :
                   element.children[i].tag = "tag" => "k" \in DOMAIN element.children[i].attrib)
    =>  /\ el = shape_element(WithoutRejected(element))
        /\ el.outcome = "dict" =>
               LET kept == SelectSeq(SubsNamed(element, "tag"),
                                     LAMBDA t : Accepted(t.attrib["k"]))
                   tags == TagsOf(element, el)
               IN  /\ Len(tags) = Len(kept)
                   /\ \A i \in 1..Len(kept) :
                          /\ tags[i].id = element.attrib["id"]
                          /\ tags[i].value = kept[i].attrib["v"]
                          /\ RawKey(tags[i]) = kept[i].attrib["k"]

\* a node whose first tag is rejected and second tag is kept has been shaped
C9_Witness ==
    /\ Shaped /\ el.outcome = "dict" /\ element.tag = "node"
    /\ Len(element.children) = 2
    /\ element.children[1] = MkTag(<<"N">>, "absent")
    /\ element.children[2] = MkTag(<<"a">>, "1412")
    /\ Len(el.node_tags) = 1

----------------------------------------------------------------------------
(* Failures of shape_element *)

\* some sub-element lacks "k", "v" or "ref"
SubLacksAttribute(e) ==
    \E i \in 1..Len(e.children) :
        LET c == e.children[i]
        IN  \/ c.tag = "tag" /\ ~({"k", "v"} \subseteq DOMAIN c.attrib)
            \/ c.tag = "nd" /\ "ref" \notin DOMAIN c.attrib

\* some tag lacks "k", some tag of accepted key lacks "v", or some nd lacks
\* "ref"
SubLacksReadAttribute(e) ==
    \E i \in 1..Len(e.children) :
        LET c == e.children[i]
        IN  \/ c.tag = "tag" /\ "k" \notin DOMAIN c.attrib
            \/ c.tag = "tag" /\ "k" \in DOMAIN c.attrib /\ Accepted(c.attrib["k"])
                   /\ "v" \notin DOMAIN c.attrib
            \/ c.tag = "nd" /\ "ref" \notin DOMAIN c.attrib

(* C6 as stated: a tag without "k" or "v", or an nd without "ref", makes   *)
(* the shaping of the element fail, also when the tag's key is rejected.   *)
C6_AnyMissingFails ==
    (Shaped /\ element.tag \in {"node", "way"} /\ SubLacksAttribute(element))
        => el.outcome = "KeyError"

(* C6 amended: a tag without "k", a tag of accepted key without "v" and an *)
(* nd without "ref" make the shaping fail; a tag of rejected key without   *)
(* "v" is skipped, the node or way being shaped when nothing else lacks.   *)
C6_ReadAttributeMissingFails ==
    Shaped =>
        /\ SubLacksReadAttribute(element) => el.outcome = "KeyError"
        /\ ( /\ ~SubLacksReadAttribute(element)
             /\ element.tag \in {"node", "way"}
             /\ FieldsOf(element.tag) \subseteq DOMAIN element.attrib )
           => el.outcome = "dict"

\* a complete node with one tag of accepted key and no "v" has failed
C6_Witness ==
    /\ Shaped /\ el.outcome = "KeyError" /\ element.tag = "node"
    /\ FullAttribs \subseteq DOMAIN element.attrib
    /\ element.children = <<MkTag(<<"a">>, "absent")>>

\* every element the scans of shape_element visit has what is read from it
ScanOK(e) ==
    LET visited == (IF e.tag \in {"tag", "nd"}
                    THEN <<[tag |-> e.tag, attrib |-> e.attrib]>> ELSE <<>>) \o e.children
    IN  \A i \in 1..Len(visited) :
            LET c == visited[i]
            IN  /\ c.tag = "tag" =>
                    /\ "k" \in DOMAIN c.attrib
                    /\ Accepted(c.attrib["k"]) =>
                           "v" \in DOMAIN c.attrib /\ "id" \in DOMAIN e.attrib
                /\ c.tag = "nd" => "ref" \in DOMAIN c.attrib /\ "id" \in DOMAIN e.attrib

(* C7 as stated: for an element that is neither node nor way,              *)
(* shape_element returns without raising, whatever the element holds.      *)
C7_UnsupportedNeverRaises ==
    (Shaped /\ element.tag \notin {"node", "way"}) => el = None

----------------------------------------------------------------------------
(* Rows of a run of process_map *)

Front(s) == SubSeq(s, 1, Len(s) - 1)

Last(s) == s[Len(s)]

\* the rows that one element of the document owes to each table
ElementRows(e) ==
    LET r == shape_element(e)
    IN  [t \in Range(Tables) |->
            IF e.tag \notin {"node", "way"} \/ r.outcome # "dict" THEN <<>>
            ELSE IF e.tag = "node"
            THEN (IF t = "nodes" THEN <<r.node>>
                  ELSE IF t = "nodes_tags" THEN r.node_tags ELSE <<>>)
            ELSE (IF t = "ways" THEN <<r.way>>
                  ELSE IF t = "ways_nodes" THEN r.way_nodes
                  ELSE IF t = "ways_tags" THEN r.way_tags ELSE <<>>)]

\* the rows that the elements of s owe to each table, in the order of s
RECURSIVE ExpectedRows(_)
ExpectedRows(s) ==
    IF Len(s) = 0 THEN EmptyCache
    ELSE LET before == ExpectedRows(Front(s))
             rows == ElementRows(Last(s))
         IN  [t \in Range(Tables) |-> before[t] \o rows[t]]

InProcessMap == pc # "idle"

(* C5: a node or way that lacks an attribute of its kind's fixed set makes *)
(* shape_element fail, and process_map stops there with no row of that     *)
(* element in any cache and nothing written to the database.               *)
C5_MissingAttributeFails ==
    (Shaped /\ element.tag \in {"node", "way"}
            /\ ~(FieldsOf(element.tag) \subseteq DOMAIN element.attrib))
    =>  /\ el.outcome = "KeyError"
        /\ InProcessMap =>
               /\ pc = "KeyError"
               /\ element = Last(stream)
               /\ cache = ExpectedRows(Front(stream))
               /\ db = db0

\* process_map has stopped at a second element that lacks "uid", the rows
\* of the first one being in the caches
C5_Witness ==
    /\ pc = "KeyError"
    /\ Len(stream) = 2
    /\ "uid" \notin DOMAIN element.attrib
    /\ Len(cache["ways"]) = 1
    /\ el.outcome = "KeyError"

(* C7 amended: for an element that is neither node nor way, shape_element  *)
(* returns None when every "tag" it scans (its descendants, and itself     *)
(* when it is a "tag") has "k", and "v" and an element "id" when the key   *)
(* is accepted, and every "nd" it scans has "ref" and an element "id";     *)
(* otherwise it raises KeyError.  process_map does not shape such an       *)
(* element, writes no row for it and goes on.                              *)
C7_UnsupportedNoneOrKeyError ==
    /\ (Shaped /\ element.tag \notin {"node", "way"}) =>
           el = IF ScanOK(element) THEN None ELSE KeyError
    /\ (InProcessMap /\ Len(stream) > 0 /\ Last(stream).tag \notin {"node", "way"}) =>
           /\ pc \in {"loop", "commit", "done", "to_sql error"}
           /\ element # Last(stream)
           /\ cache = ExpectedRows(Front(stream))

\* a relation with a tag of rejected key and no "v" has been shaped to None
C7_Witness ==
    /\ Shaped /\ element.tag = "relation" /\ el = None
    /\ element.children = <<MkTag(<<"N">>, "absent")>>

(* C8: no row is durable before the stream is exhausted: the tables are    *)
(* unchanged while process_map loops and after it stops on a shaping or    *)
(* validation failure; the caches hold the rows of the elements read, in   *)
(* the order of the stream; after a complete run every table is its old    *)
(* content followed by exactly those rows.                                 *)
C8_DurableOnlyAfterStream ==
    /\ pc \in {"idle", "loop", "KeyError", "Exception"} => db = db0
    /\ pc \in {"loop", "commit", "done", "to_sql error"} => cache = ExpectedRows(stream)
    /\ pc \in {"KeyError", "Exception"} => cache = ExpectedRows(Front(stream))
    /\ pc = "done" =>
           \A i \in 1..Len(Tables) :
               db[Tables[i]] = db0[Tables[i]] \o ExpectedRows(stream)[Tables[i]]

\* a complete run over two nodes of different id, each with a kept tag
C8_Witness ==
    /\ pc = "done"
    /\ Len(db["nodes_tags"]) = 3
    /\ db["nodes_tags"][2].id # db["nodes_tags"][3].id
    /\ db["nodes"][2].id = db["nodes_tags"][2].id

(* C10: the tables are committed one after the other in the order nodes,   *)
(* nodes_tags, ways, ways_nodes, ways_tags, each once: the tables before   *)
(* the ci-th hold their old content and their rows, the others their old   *)
(* content only, also after a commit has failed.                           *)
C10_CommitOrder ==
    /\ Tables = <<"nodes", "nodes_tags", "ways", "ways_nodes", "ways_tags">>
    /\ pc \in {"commit", "done", "to_sql error"} =>
           /\ ci \in 1..(Len(Tables) + 1)
           /\ (pc = "done") = (ci = Len(Tables) + 1)
           /\ \A i \in 1..Len(Tables) :
                  db[Tables[i]] = IF i < ci THEN db0[Tables[i]] \o cache[Tables[i]]
                                  ELSE db0[Tables[i]]

\* the commit of ways has failed after those of nodes and nodes_tags, rows
\* being cached for every table
C10_Witness ==
    /\ pc = "to_sql error"
    /\ ci = 3
    /\ \A i \in 1..Len(Tables) : Len(cache[Tables[i]]) > 0
    /\ Len(db["nodes"]) = 2 /\ Len(db["nodes_tags"]) = 2
    /\ db["ways"] = db0["ways"] /\ db["ways_tags"] = db0["ways_tags"]

====
